---------------------------- MODULE Spec2Model ----------------------------
(***************************************************************************)
(* A model of owned_ptr: the shared-read implementation (owned_ptr /       *)
(* reader_ptr, src/owned_ptr.hpp) and the exclusive-lock implementation    *)
(* (owned_ptr / child_ptr, src/unnamed/part_001).                          *)
(*                                                                         *)
(* Every thread runs one public operation at a time.  An operation is a    *)
(* stack of frames, one per function being executed; each action is one    *)
(* step of the function on top of the stack.  Steps are split wherever     *)
(* another thread can observe the difference: at every mutex acquisition,  *)
(* at every unsynchronised read or write of value_ and locked_, and at     *)
(* every iteration of a polling loop.                                      *)
(***************************************************************************)
EXTENDS Integers, Sequences, FiniteSets, TLC

\* Bounds of the model: the reader_ptr / child_ptr objects, the objects
\* `new` can return, and how far the clock runs.
NumReaders == 2
NumVals == 3
MaxClock == 1

\* nullptr, also "no thread" for a mutex that is free.
Null == 0

\* One thread for each reader's user and one for the owner's user.
Threads == 1 .. (NumReaders + 1)
OwnerThread == NumReaders + 1
Owners == {1, 2}
Readers == 1 .. NumReaders
Vals == 1 .. NumVals

VARIABLES
    o_state,     \* owned_ptr object: "none" | "live" | "dying" | "dead"
    o_value_,    \* owned_ptr::value_
    children_,   \* owned_ptr::children_
    update_,     \* owned_ptr::update_
    o_mutex_,    \* owned_ptr::mutex_  (holder thread, Null when free)
    r_state,     \* reader_ptr / child_ptr object: "none" | "live" | "dead"
    r_value_,    \* reader_ptr::value_
    locked_,     \* reader_ptr::locked_ (a value) / child_ptr::locked_ (a flag)
    parent_,     \* reader_ptr::parent_ / child_ptr::parent_
    r_mutex_,    \* reader_ptr::mutex_ / child_ptr::mutex_
    stack,       \* per thread: the frames of the operation it is running
    held,        \* per reader: the pointer its caller got from lock() and
                 \* has not yet given back with unlock()
    kept,        \* per reader: the owner whose reset() in progress was called
                 \* while the reader held a pointer it has held ever since
    freed,       \* the values that have been deleted
    doomed,      \* per owner: the readers attached to it when its destructor
                 \* was called
    nextVal,     \* the next value "new" returns
    fault,       \* the process has crashed (undefined behaviour took effect)
    clock        \* time(nullptr), exclusive-lock implementation

vars == <<o_state, o_value_, children_, update_, o_mutex_, r_state, r_value_,
          locked_, parent_, r_mutex_, stack, held, kept, freed, doomed, nextVal, fault, clock>>

ownerVars == <<o_state, o_value_, children_, update_, o_mutex_>>
readerVars == <<r_state, r_value_, locked_, parent_, r_mutex_>>

----------------------------------------------------------------------------
\* Frames.

\* g is not program state: it keeps what the operation found when it was called.
Frame(pc, o, r, x, i) == [pc |-> pc, o |-> o, r |-> r, x |-> x, i |-> i, g |-> <<>>]

Idle(t) == ~fault /\ stack[t] = <<>>
Top(t) == Head(stack[t])
At(t, pc) == ~fault /\ stack[t] # <<>> /\ Head(stack[t]).pc = pc

\* Replace the top frame.
Goto(t, f) == stack' = [stack EXCEPT ![t] = <<f>> \o Tail(stack[t])]
\* Return from the function on top.
Return(t) == stack' = [stack EXCEPT ![t] = Tail(stack[t])]
\* Call: the caller continues at frame f once the callee g returns.
Call(t, f, g) == stack' = [stack EXCEPT ![t] = <<g, f>> \o Tail(stack[t])]
\* Start a public operation.
Start(t, f) == stack' = [stack EXCEPT ![t] = <<f>>]

\* The public calls in progress on reader r (as `this` or as the argument).
ReaderCallPcs == {"lock_write", "get_lock", "get_value", "get_setowner", "get_push",
                  "rd_lock", "rd_body", "rd_unlock", "cp_lock", "cp_body", "cp_unlock",
                  "mv_lock", "mv_body", "mv_unlock"}
ReaderBusy(r) ==
    \E t \in Threads : \E k \in DOMAIN stack[t] :
        /\ stack[t][k].pc \in ReaderCallPcs
        /\ (stack[t][k].r = r \/
              (stack[t][k].pc \in {"cp_lock", "cp_body", "cp_unlock",
                                   "mv_lock", "mv_body", "mv_unlock"}
               /\ stack[t][k].x = r))

\* The public calls in progress on owner o made by its own user.
OwnerCallPcs == {"get_lock", "get_value", "get_setowner", "get_push",
                 "rs_lock", "rs_value", "rs_check", "rs_drain", "rs_for", "rs_delete",
                 "xg_lock", "xg_body", "xg_assign", "xg_push", "xs_set"}
OwnerBusy(o) ==
    \E t \in Threads :
        /\ stack[t] # <<>>
        /\ stack[t][Len(stack[t])].pc \in OwnerCallPcs
        /\ stack[t][Len(stack[t])].o = o

----------------------------------------------------------------------------
\* reader_ptr::lock and reader_ptr::unlock.

\* `return locked_ = value_;` first reads value_ ...  The frame keeps, in g,
\* the destroyed owners whose destructor found r attached.
lock_read(t, r) ==
    /\ Idle(t) /\ r_state[r] = "live" /\ ~ReaderBusy(r) /\ held[r] = Null
    /\ Start(t, [Frame("lock_write", Null, r, r_value_[r], 0)
                    EXCEPT !.g = {o \in Owners : o_state[o] = "dead" /\ r \in doomed[o]}])
    /\ UNCHANGED <<ownerVars, readerVars, held, kept, freed, doomed, nextVal, fault, clock>>

\* ... then writes locked_ and returns it.
lock_write(t) ==
    /\ At(t, "lock_write")
    /\ locked_' = [locked_ EXCEPT ![Top(t).r] = Top(t).x]
    /\ held' = [held EXCEPT ![Top(t).r] = Top(t).x]
    /\ Return(t)
    /\ UNCHANGED <<ownerVars, r_state, r_value_, parent_, r_mutex_, kept, freed, doomed, nextVal, fault, clock>>

\* unlock as it would be if it cleared the in-use marker of every reader.
unlock_clears_all(t, r) ==
    /\ Idle(t) /\ r_state[r] = "live" /\ ~ReaderBusy(r)
    /\ locked_' = [q \in Readers |-> Null]
    /\ held' = [held EXCEPT ![r] = Null]
    /\ kept' = [kept EXCEPT ![r] = Null]
    /\ UNCHANGED <<ownerVars, r_state, r_value_, parent_, r_mutex_, stack, freed, doomed, nextVal, fault, clock>>

\* `locked_ = nullptr;`
unlock(t, r) ==
    /\ Idle(t) /\ r_state[r] = "live" /\ ~ReaderBusy(r)
    /\ locked_' = [locked_ EXCEPT ![r] = Null]
    /\ held' = [held EXCEPT ![r] = Null]
    /\ kept' = [kept EXCEPT ![r] = Null]
    /\ UNCHANGED <<ownerVars, r_state, r_value_, parent_, r_mutex_, stack, freed, doomed, nextVal, fault, clock>>

----------------------------------------------------------------------------
\* reader_ptr::set_owner_(owner): frame r = this, x = owner.

so_lock(t) ==
    /\ At(t, "so_lock")
    /\ r_mutex_[Top(t).r] = Null
    /\ r_mutex_' = [r_mutex_ EXCEPT ![Top(t).r] = t]
    /\ Goto(t, [Top(t) EXCEPT !.pc = "so_body"])
    /\ UNCHANGED <<ownerVars, r_state, r_value_, locked_, parent_, held, kept, freed, doomed, nextVal, fault, clock>>

\* `if (owner != nullptr && parent_ != nullptr) parent_->remove_(this);`
so_body(t) ==
    /\ At(t, "so_body")
    /\ IF Top(t).x # Null /\ parent_[Top(t).r] # Null
         THEN Call(t, [Top(t) EXCEPT !.pc = "so_assign"],
                   Frame("rm_lock", parent_[Top(t).r], Top(t).r, Null, 0))
         ELSE Goto(t, [Top(t) EXCEPT !.pc = "so_assign"])
    /\ UNCHANGED <<ownerVars, readerVars, held, kept, freed, doomed, nextVal, fault, clock>>

\* `parent_ = owner; mutex_.unlock();`
so_assign(t) ==
    /\ At(t, "so_assign")
    /\ parent_' = [parent_ EXCEPT ![Top(t).r] = Top(t).x]
    /\ r_mutex_' = [r_mutex_ EXCEPT ![Top(t).r] = Null]
    /\ Return(t)
    /\ UNCHANGED <<ownerVars, r_state, r_value_, locked_, held, kept, freed, doomed, nextVal, fault, clock>>

----------------------------------------------------------------------------
\* owned_ptr::remove_(child): frame o = this, r = child.

rm_lock(t) ==
    /\ At(t, "rm_lock")
    /\ o_mutex_[Top(t).o] = Null
    /\ IF o_state[Top(t).o] = "dead"
         THEN \* parent_ dangles: the owner, with its mutex, has been freed.
              /\ fault' = TRUE
              /\ UNCHANGED <<o_mutex_, stack>>
         ELSE /\ o_mutex_' = [o_mutex_ EXCEPT ![Top(t).o] = t]
              /\ Goto(t, [Top(t) EXCEPT !.pc = "rm_loop"])
              /\ UNCHANGED fault
    /\ UNCHANGED <<o_state, o_value_, children_, update_, readerVars, held, kept, freed, doomed, nextVal, clock>>

\* `auto i = children_.begin(); while (i != children_.end()) { if (*i == child) ...}`
\* i is never advanced: with the child anywhere but in front the loop spins for ever.
rm_loop(t) ==
    /\ At(t, "rm_loop")
    /\ IF children_[Top(t).o] = <<>>
         THEN /\ o_mutex_' = [o_mutex_ EXCEPT ![Top(t).o] = Null]
              /\ Return(t)
         ELSE /\ UNCHANGED o_mutex_
              /\ IF Head(children_[Top(t).o]) = Top(t).r
                   THEN Goto(t, [Top(t) EXCEPT !.pc = "rm_spin"])
                   ELSE UNCHANGED stack
    /\ UNCHANGED <<o_state, o_value_, children_, update_, readerVars, held, kept, freed, doomed, nextVal, fault, clock>>

\* remove_ as it would be if it returned without erasing the entry.
rm_spin_keeps_entry(t) ==
    /\ At(t, "rm_spin")
    /\ IF locked_[Top(t).r] = Null
         THEN UNCHANGED <<o_mutex_, stack>>
         ELSE /\ o_mutex_' = [o_mutex_ EXCEPT ![Top(t).o] = Null]
              /\ Return(t)
    /\ UNCHANGED <<o_state, o_value_, children_, update_, readerVars, held, kept, freed, doomed, nextVal, fault, clock>>

\* `while ((*i)->locked_ == nullptr) yield(); children_.erase(i); return;`
rm_spin(t) ==
    /\ At(t, "rm_spin")
    /\ IF locked_[Top(t).r] = Null
         THEN UNCHANGED <<children_, o_mutex_, stack>>
         ELSE /\ children_' = [children_ EXCEPT ![Top(t).o] = Tail(children_[Top(t).o])]
              /\ o_mutex_' = [o_mutex_ EXCEPT ![Top(t).o] = Null]
              /\ Return(t)
    /\ UNCHANGED <<o_state, o_value_, update_, readerVars, held, kept, freed, doomed, nextVal, fault, clock>>

----------------------------------------------------------------------------
\* owned_ptr::replace_(reader, with): frame o = this, r = reader, x = with.

rp_lock(t) ==
    /\ At(t, "rp_lock")
    /\ o_mutex_[Top(t).o] = Null
    /\ IF o_state[Top(t).o] = "dead"
         THEN /\ fault' = TRUE
              /\ UNCHANGED <<o_mutex_, stack>>
         ELSE /\ o_mutex_' = [o_mutex_ EXCEPT ![Top(t).o] = t]
              /\ Goto(t, [Top(t) EXCEPT !.pc = "rp_loop"])
              /\ UNCHANGED fault
    /\ UNCHANGED <<o_state, o_value_, children_, update_, readerVars, held, kept, freed, doomed, nextVal, clock>>

\* `while (i != children_.end()) { if (*i == reader) { *i = with; return; } }`
rp_loop(t) ==
    /\ At(t, "rp_loop")
    /\ IF children_[Top(t).o] = <<>>
         THEN /\ o_mutex_' = [o_mutex_ EXCEPT ![Top(t).o] = Null]
              /\ Return(t)
              /\ UNCHANGED children_
         ELSE IF Head(children_[Top(t).o]) = Top(t).r
                THEN /\ children_' = [children_ EXCEPT ![Top(t).o][1] = Top(t).x]
                     /\ o_mutex_' = [o_mutex_ EXCEPT ![Top(t).o] = Null]
                     /\ Return(t)
                ELSE UNCHANGED <<children_, o_mutex_, stack>>
    /\ UNCHANGED <<o_state, o_value_, update_, readerVars, held, kept, freed, doomed, nextVal, fault, clock>>

----------------------------------------------------------------------------
\* owned_ptr::~owned_ptr: frame o = this, i = position in children_.

\* The owner's user destroys it: no call of its own on the owner is in progress.
dtor_call(t, o) ==
    /\ Idle(t) /\ o_state[o] = "live" /\ ~OwnerBusy(o)
    /\ o_state' = [o_state EXCEPT ![o] = "dying"]
    /\ doomed' = [doomed EXCEPT ![o] = {r \in Readers : r_state[r] = "live" /\ parent_[r] = o}]
    /\ Start(t, Frame("dtor_lock", o, Null, Null, 1))
    /\ UNCHANGED <<o_value_, children_, update_, o_mutex_, readerVars, held, kept, freed, nextVal, fault, clock>>

\* `mutex_.lock();`
dtor_lock(t) ==
    /\ At(t, "dtor_lock")
    /\ o_mutex_[Top(t).o] = Null
    /\ o_mutex_' = [o_mutex_ EXCEPT ![Top(t).o] = t]
    /\ Goto(t, [Top(t) EXCEPT !.pc = "dtor_next"])
    /\ UNCHANGED <<o_state, o_value_, children_, update_, readerVars, held, kept, freed, doomed, nextVal, fault, clock>>

\* ~owned_ptr as it would be without `child->value_ = nullptr;`.
dtor_next_keeps_value(t) ==
    /\ At(t, "dtor_next")
    /\ IF Top(t).i > Len(children_[Top(t).o])
         THEN Goto(t, [Top(t) EXCEPT !.pc = "dtor_delete"])
         ELSE Goto(t, [Top(t) EXCEPT !.pc = "dtor_setowner", !.r = children_[Top(t).o][Top(t).i]])
    /\ UNCHANGED <<ownerVars, readerVars, held, kept, freed, doomed, nextVal, fault, clock>>

\* `for (auto &child : children_)`, then `child->value_ = nullptr;`
dtor_next(t) ==
    /\ At(t, "dtor_next")
    /\ IF Top(t).i > Len(children_[Top(t).o])
         THEN /\ Goto(t, [Top(t) EXCEPT !.pc = "dtor_delete"])
              /\ UNCHANGED <<r_value_, fault>>
         ELSE LET child == children_[Top(t).o][Top(t).i] IN
              IF r_state[child] = "dead"
                THEN \* the registry entry dangles
                     /\ fault' = TRUE
                     /\ UNCHANGED <<r_value_, stack>>
                ELSE /\ r_value_' = [r_value_ EXCEPT ![child] = Null]
                     /\ Goto(t, [Top(t) EXCEPT !.pc = "dtor_setowner", !.r = child])
                     /\ UNCHANGED fault
    /\ UNCHANGED <<ownerVars, r_state, locked_, parent_, r_mutex_, held, kept, freed, doomed, nextVal, clock>>

\* `child->set_owner_(nullptr);`
dtor_setowner(t) ==
    /\ At(t, "dtor_setowner")
    /\ Call(t, [Top(t) EXCEPT !.pc = "dtor_poll"], Frame("so_lock", Null, Top(t).r, Null, 0))
    /\ UNCHANGED <<ownerVars, readerVars, held, kept, freed, doomed, nextVal, fault, clock>>

\* `while (child->locked_ != nullptr) yield();`
dtor_poll(t) ==
    /\ At(t, "dtor_poll")
    /\ IF locked_[Top(t).r] # Null
         THEN UNCHANGED stack
         ELSE Goto(t, [Top(t) EXCEPT !.pc = "dtor_next", !.i = Top(t).i + 1, !.r = Null])
    /\ UNCHANGED <<ownerVars, readerVars, held, kept, freed, doomed, nextVal, fault, clock>>

\* `delete value_;`
dtor_delete(t) ==
    /\ At(t, "dtor_delete")
    /\ freed' = freed \cup ({o_value_[Top(t).o]} \ {Null})
    /\ Goto(t, [Top(t) EXCEPT !.pc = "dtor_unlock"])
    /\ UNCHANGED <<ownerVars, readerVars, held, kept, doomed, nextVal, fault, clock>>

\* `mutex_.unlock();` and the object is gone.
dtor_unlock(t) ==
    /\ At(t, "dtor_unlock")
    /\ o_mutex_' = [o_mutex_ EXCEPT ![Top(t).o] = Null]
    /\ o_state' = [o_state EXCEPT ![Top(t).o] = "dead"]
    /\ Return(t)
    /\ UNCHANGED <<o_value_, children_, update_, readerVars, held, kept, freed, doomed, nextVal, fault, clock>>

----------------------------------------------------------------------------
\* owned_ptr::get(reader): frame o = this, r = reader.

get_call(t, o, r) ==
    /\ Idle(t) /\ o_state[o] = "live" /\ r_state[r] = "live" /\ ~ReaderBusy(r)
    /\ Start(t, Frame("get_lock", o, r, Null, 0))
    /\ UNCHANGED <<ownerVars, readerVars, held, kept, freed, doomed, nextVal, fault, clock>>

\* `mutex_.lock();`
get_lock(t) ==
    /\ At(t, "get_lock")
    /\ o_mutex_[Top(t).o] = Null
    /\ IF o_state[Top(t).o] = "dead"
         THEN /\ fault' = TRUE
              /\ UNCHANGED <<o_mutex_, stack>>
         ELSE /\ o_mutex_' = [o_mutex_ EXCEPT ![Top(t).o] = t]
              /\ Goto(t, [Top(t) EXCEPT !.pc = "get_value"])
              /\ UNCHANGED fault
    /\ UNCHANGED <<o_state, o_value_, children_, update_, readerVars, held, kept, freed, doomed, nextVal, clock>>

\* `reader.value_ = value_;`
get_value(t) ==
    /\ At(t, "get_value")
    /\ r_value_' = [r_value_ EXCEPT ![Top(t).r] = o_value_[Top(t).o]]
    /\ Goto(t, [Top(t) EXCEPT !.pc = "get_setowner"])
    /\ UNCHANGED <<ownerVars, r_state, locked_, parent_, r_mutex_, held, kept, freed, doomed, nextVal, fault, clock>>

\* `reader.set_owner_(this);`
get_setowner(t) ==
    /\ At(t, "get_setowner")
    /\ Call(t, [Top(t) EXCEPT !.pc = "get_push"], Frame("so_lock", Null, Top(t).r, Top(t).o, 0))
    /\ UNCHANGED <<ownerVars, readerVars, held, kept, freed, doomed, nextVal, fault, clock>>

\* `children_.push_back(&reader); mutex_.unlock();`
get_push(t) ==
    /\ At(t, "get_push")
    /\ children_' = [children_ EXCEPT ![Top(t).o] = Append(children_[Top(t).o], Top(t).r)]
    /\ o_mutex_' = [o_mutex_ EXCEPT ![Top(t).o] = Null]
    /\ Return(t)
    /\ UNCHANGED <<o_state, o_value_, update_, readerVars, held, kept, freed, doomed, nextVal, fault, clock>>

----------------------------------------------------------------------------
\* owned_ptr::reset(value): frame o = this, x = value, i = position in
\* children_, then in update_.

\* The argument is nullptr or a fresh object.
reset_call(t, o, v) ==
    /\ Idle(t) /\ o_state[o] = "live"
    /\ v = Null \/ (v = nextVal /\ nextVal <= NumVals)
    /\ nextVal' = IF v = Null THEN nextVal ELSE nextVal + 1
    /\ Start(t, [Frame("rs_lock", o, Null, v, 1) EXCEPT
                    !.g = {r \in Readers : held[r] # Null /\ parent_[r] = o}])
    /\ kept' = [r \in Readers |->
                IF held[r] # Null /\ \E k \in DOMAIN children_[o] : children_[o][k] = r
                  THEN o ELSE kept[r]]
    /\ UNCHANGED <<ownerVars, readerVars, held, freed, doomed, fault, clock>>

rs_lock(t) ==
    /\ At(t, "rs_lock")
    /\ o_mutex_[Top(t).o] = Null
    /\ o_mutex_' = [o_mutex_ EXCEPT ![Top(t).o] = t]
    /\ Goto(t, [Top(t) EXCEPT !.pc = "rs_value"])
    /\ UNCHANGED <<o_state, o_value_, children_, update_, readerVars, held, kept, freed, doomed, nextVal, fault, clock>>

\* `for (auto &child : children_) { child->value_ = value;`
rs_value(t) ==
    /\ At(t, "rs_value")
    /\ IF Top(t).i > Len(children_[Top(t).o])
         THEN /\ Goto(t, [Top(t) EXCEPT !.pc = "rs_drain"])
              /\ UNCHANGED <<r_value_, fault>>
         ELSE LET child == children_[Top(t).o][Top(t).i] IN
              IF r_state[child] = "dead"
                THEN /\ fault' = TRUE
                     /\ UNCHANGED <<r_value_, stack>>
                ELSE /\ r_value_' = [r_value_ EXCEPT ![child] = Top(t).x]
                     /\ Goto(t, [Top(t) EXCEPT !.pc = "rs_check", !.r = child])
                     /\ UNCHANGED fault
    /\ UNCHANGED <<ownerVars, r_state, locked_, parent_, r_mutex_, held, kept, freed, doomed, nextVal, clock>>

\* reset as it would be if it did not note the locked readers.
rs_check_skips_update(t) ==
    /\ At(t, "rs_check")
    /\ Goto(t, [Top(t) EXCEPT !.pc = "rs_value", !.i = Top(t).i + 1, !.r = Null])
    /\ UNCHANGED <<ownerVars, readerVars, held, kept, freed, doomed, nextVal, fault, clock>>

\* `if (child->locked_ != nullptr) update_.push_back(child); }`
rs_check(t) ==
    /\ At(t, "rs_check")
    /\ update_' = [update_ EXCEPT ![Top(t).o] =
                     IF locked_[Top(t).r] # Null THEN Append(@, Top(t).r) ELSE @]
    /\ Goto(t, [Top(t) EXCEPT !.pc = "rs_value", !.i = Top(t).i + 1, !.r = Null])
    /\ UNCHANGED <<o_state, o_value_, children_, o_mutex_, readerVars, held, kept, freed, doomed, nextVal, fault, clock>>

\* `while (!update_.empty()) { for (auto child = update_.begin(); ...`
rs_drain(t) ==
    /\ At(t, "rs_drain")
    /\ IF update_[Top(t).o] = <<>>
         THEN Goto(t, [Top(t) EXCEPT !.pc = "rs_delete"])
         ELSE Goto(t, [Top(t) EXCEPT !.pc = "rs_for", !.i = 1])
    /\ UNCHANGED <<ownerVars, readerVars, held, kept, freed, doomed, nextVal, fault, clock>>

RemoveAt(s, k) == [j \in 1 .. (Len(s) - 1) |-> IF j < k THEN s[j] ELSE s[j + 1]]

\* `... child != update_.end(); ++child) if ((*child)->locked_ == nullptr ||
\* (*child)->locked_ == value) update_.erase(child);`
\* ++child after erase(child) steps an invalidated std::list iterator: the
\* freed node may still link to its successor, or the read goes wild.
rs_for(t) ==
    /\ At(t, "rs_for")
    /\ IF Top(t).i > Len(update_[Top(t).o])
         THEN /\ Goto(t, [Top(t) EXCEPT !.pc = "rs_drain"])
              /\ UNCHANGED <<update_, fault>>
         ELSE LET child == update_[Top(t).o][Top(t).i] IN
              IF locked_[child] = Null \/ locked_[child] = Top(t).x
                THEN /\ update_' = [update_ EXCEPT ![Top(t).o] = RemoveAt(@, Top(t).i)]
                     /\ \/ UNCHANGED <<stack, fault>>
                        \/ fault' = TRUE /\ UNCHANGED stack
                ELSE /\ Goto(t, [Top(t) EXCEPT !.i = Top(t).i + 1])
                     /\ UNCHANGED <<update_, fault>>
    /\ UNCHANGED <<o_state, o_value_, children_, o_mutex_, readerVars, held, kept, freed, doomed, nextVal, clock>>

\* `delete value_; value_ = value; mutex_.unlock();`
rs_delete(t) ==
    /\ At(t, "rs_delete")
    /\ freed' = freed \cup ({o_value_[Top(t).o]} \ {Null})
    /\ o_value_' = [o_value_ EXCEPT ![Top(t).o] = Top(t).x]
    /\ o_mutex_' = [o_mutex_ EXCEPT ![Top(t).o] = Null]
    /\ kept' = [r \in Readers |-> IF kept[r] = Top(t).o THEN Null ELSE kept[r]]
    /\ Return(t)
    /\ UNCHANGED <<o_state, children_, update_, readerVars, held, doomed, nextVal, fault, clock>>

\* owned_ptr::count(): `lock_guard guard(mutex_); return children_.size();`
count(o) == Len(children_[o])

----------------------------------------------------------------------------
\* reader_ptr constructors and destructor.

\* The object a constructor runs on: value_(nullptr), locked_(nullptr), parent_(nullptr).
Construct(r) ==
    /\ r_state[r] = "none"
    /\ \A q \in Readers : q < r => r_state[q] # "none"
    /\ r_state' = [r_state EXCEPT ![r] = "live"]
    /\ r_value_' = [r_value_ EXCEPT ![r] = Null]
    /\ locked_' = [locked_ EXCEPT ![r] = Null]
    /\ parent_' = [parent_ EXCEPT ![r] = Null]

\* reader_ptr()
reader_ptr(t, r) ==
    /\ Idle(t)
    /\ Construct(r)
    /\ UNCHANGED <<ownerVars, r_mutex_, stack, held, kept, freed, doomed, nextVal, fault, clock>>

\* reader_ptr(owned_ptr *owner): `owner->get(*this);`
reader_ptr_owner(t, r, o) ==
    /\ Idle(t) /\ o_state[o] = "live"
    /\ Construct(r)
    /\ Start(t, Frame("get_lock", o, r, Null, 0))
    /\ UNCHANGED <<ownerVars, r_mutex_, held, kept, freed, doomed, nextVal, fault, clock>>

\* What a copy or move constructor finds: other's owner, that owner's registry,
\* and other's value_ and locked_.
Snapshot(other) ==
    [o |-> parent_[other],
     children |-> IF parent_[other] = Null THEN <<>> ELSE children_[parent_[other]],
     value |-> r_value_[other],
     locked |-> locked_[other]]

\* reader_ptr(reader_ptr &other): frame r = this, x = other.
copy_call(t, r, other) ==
    /\ Idle(t) /\ r_state[other] = "live" /\ ~ReaderBusy(other)
    /\ Construct(r)
    /\ Start(t, [Frame("cp_lock", Null, r, other, 0) EXCEPT !.g = Snapshot(other)])
    /\ UNCHANGED <<ownerVars, r_mutex_, held, kept, freed, doomed, nextVal, fault, clock>>

\* `other.mutex_.lock();`
cp_lock(t) ==
    /\ At(t, "cp_lock")
    /\ r_mutex_[Top(t).x] = Null
    /\ r_mutex_' = [r_mutex_ EXCEPT ![Top(t).x] = t]
    /\ Goto(t, [Top(t) EXCEPT !.pc = "cp_body"])
    /\ UNCHANGED <<ownerVars, r_state, r_value_, locked_, parent_, held, kept, freed, doomed, nextVal, fault, clock>>

\* The copy constructor as it would be if it did not call get.
cp_body_skips_get(t) ==
    /\ At(t, "cp_body")
    /\ Goto(t, [Top(t) EXCEPT !.pc = "cp_unlock"])
    /\ UNCHANGED <<ownerVars, readerVars, held, kept, freed, doomed, nextVal, fault, clock>>

\* `if (other.parent_ != nullptr) other.parent_->get(*this);`
cp_body(t) ==
    /\ At(t, "cp_body")
    /\ IF parent_[Top(t).x] # Null
         THEN Call(t, [Top(t) EXCEPT !.pc = "cp_unlock"],
                   Frame("get_lock", parent_[Top(t).x], Top(t).r, Null, 0))
         ELSE Goto(t, [Top(t) EXCEPT !.pc = "cp_unlock"])
    /\ UNCHANGED <<ownerVars, readerVars, held, kept, freed, doomed, nextVal, fault, clock>>

\* `other.mutex_.unlock();`
cp_unlock(t) ==
    /\ At(t, "cp_unlock")
    /\ r_mutex_' = [r_mutex_ EXCEPT ![Top(t).x] = Null]
    /\ Return(t)
    /\ UNCHANGED <<ownerVars, r_state, r_value_, locked_, parent_, held, kept, freed, doomed, nextVal, fault, clock>>

\* reader_ptr(reader_ptr &&other): frame r = this, x = other.
move_call(t, r, other) ==
    /\ Idle(t) /\ r_state[other] = "live" /\ ~ReaderBusy(other)
    /\ Construct(r)
    /\ Start(t, [Frame("mv_lock", Null, r, other, 0) EXCEPT !.g = Snapshot(other)])
    /\ UNCHANGED <<ownerVars, r_mutex_, held, kept, freed, doomed, nextVal, fault, clock>>

mv_lock(t) ==
    /\ At(t, "mv_lock")
    /\ r_mutex_[Top(t).x] = Null
    /\ r_mutex_' = [r_mutex_ EXCEPT ![Top(t).x] = t]
    /\ Goto(t, [Top(t) EXCEPT !.pc = "mv_body"])
    /\ UNCHANGED <<ownerVars, r_state, r_value_, locked_, parent_, held, kept, freed, doomed, nextVal, fault, clock>>

\* `if (other.parent_ != nullptr) other.parent_->replace_(other, this);`
mv_body(t) ==
    /\ At(t, "mv_body")
    /\ IF parent_[Top(t).x] # Null
         THEN Call(t, [Top(t) EXCEPT !.pc = "mv_unlock"],
                   Frame("rp_lock", parent_[Top(t).x], Top(t).x, Top(t).r, 0))
         ELSE Goto(t, [Top(t) EXCEPT !.pc = "mv_unlock"])
    /\ UNCHANGED <<ownerVars, readerVars, held, kept, freed, doomed, nextVal, fault, clock>>

mv_unlock(t) ==
    /\ At(t, "mv_unlock")
    /\ r_mutex_' = [r_mutex_ EXCEPT ![Top(t).x] = Null]
    /\ Return(t)
    /\ UNCHANGED <<ownerVars, r_state, r_value_, locked_, parent_, held, kept, freed, doomed, nextVal, fault, clock>>

\* ~reader_ptr(): frame r = this.  The caller gives up the pointer it held.
rd_call(t, r) ==
    /\ Idle(t) /\ r_state[r] = "live" /\ ~ReaderBusy(r)
    /\ held' = [held EXCEPT ![r] = Null]
    /\ kept' = [kept EXCEPT ![r] = Null]
    /\ Start(t, Frame("rd_lock", Null, r, Null, 0))
    /\ UNCHANGED <<ownerVars, readerVars, freed, doomed, nextVal, fault, clock>>

rd_lock(t) ==
    /\ At(t, "rd_lock")
    /\ r_mutex_[Top(t).r] = Null
    /\ r_mutex_' = [r_mutex_ EXCEPT ![Top(t).r] = t]
    /\ Goto(t, [Top(t) EXCEPT !.pc = "rd_body"])
    /\ UNCHANGED <<ownerVars, r_state, r_value_, locked_, parent_, held, kept, freed, doomed, nextVal, fault, clock>>

\* `if (parent_ != nullptr) parent_->remove_(this);`
rd_body(t) ==
    /\ At(t, "rd_body")
    /\ IF parent_[Top(t).r] # Null
         THEN Call(t, [Top(t) EXCEPT !.pc = "rd_unlock"],
                   Frame("rm_lock", parent_[Top(t).r], Top(t).r, Null, 0))
         ELSE Goto(t, [Top(t) EXCEPT !.pc = "rd_unlock"])
    /\ UNCHANGED <<ownerVars, readerVars, held, kept, freed, doomed, nextVal, fault, clock>>

\* `mutex_.unlock();` and the object is gone.
rd_unlock(t) ==
    /\ At(t, "rd_unlock")
    /\ r_mutex_' = [r_mutex_ EXCEPT ![Top(t).r] = Null]
    /\ r_state' = [r_state EXCEPT ![Top(t).r] = "dead"]
    /\ Return(t)
    /\ UNCHANGED <<ownerVars, r_value_, locked_, parent_, held, kept, freed, doomed, nextVal, fault, clock>>

----------------------------------------------------------------------------
\* The steps inside the functions of src/owned_ptr.hpp.
LockStep(t) == lock_write(t)

AttachStep(t) ==
    \/ get_lock(t) \/ get_value(t) \/ get_setowner(t) \/ get_push(t)
    \/ so_lock(t) \/ so_body(t) \/ so_assign(t)

RemoveStep(t) == rm_lock(t) \/ rm_loop(t) \/ rm_spin(t)

DtorStep(t) ==
    \/ dtor_lock(t) \/ dtor_next(t) \/ dtor_setowner(t) \/ dtor_poll(t)
    \/ dtor_delete(t) \/ dtor_unlock(t)

ResetStep(t) ==
    \/ rs_lock(t) \/ rs_value(t) \/ rs_check(t) \/ rs_drain(t) \/ rs_for(t) \/ rs_delete(t)

ReaderDtorStep(t) == rd_lock(t) \/ rd_body(t) \/ rd_unlock(t)

CoreStep(t) ==
    LockStep(t) \/ AttachStep(t) \/ RemoveStep(t) \/ DtorStep(t) \/ ResetStep(t) \/ ReaderDtorStep(t)

CopyStep(t) == cp_lock(t) \/ cp_body(t) \/ cp_unlock(t)

MoveStep(t) == mv_lock(t) \/ mv_body(t) \/ mv_unlock(t) \/ rp_lock(t) \/ rp_loop(t)

InitCommon ==
    /\ o_value_ = [o \in Owners |-> o]
    /\ children_ = [o \in Owners |-> <<>>]
    /\ update_ = [o \in Owners |-> <<>>]
    /\ o_mutex_ = [o \in Owners |-> Null]
    /\ r_value_ = [r \in Readers |-> Null]
    /\ parent_ = [r \in Readers |-> Null]
    /\ r_mutex_ = [r \in Readers |-> Null]
    /\ stack = [t \in Threads |-> <<>>]
    /\ held = [r \in Readers |-> Null]
    /\ kept = [r \in Readers |-> Null]
    /\ freed = {}
    /\ doomed = [o \in Owners |-> {}]
    /\ fault = FALSE
    /\ clock = 0

----------------------------------------------------------------------------
\* Spec: the shared-read implementation under concurrency.  One owner,
\* `new owned_ptr<int>(new int(..))`, and NumReaders readers `reader_ptr<int> r;`.
\* Reader r is used by thread r (get, lock, unlock, destruction); the owner is
\* reset and destroyed by OwnerThread.

Init ==
    /\ InitCommon
    /\ o_state = [o \in Owners |-> IF o = 1 THEN "live" ELSE "none"]
    /\ r_state = [r \in Readers |-> "live"]
    /\ locked_ = [r \in Readers |-> Null]
    /\ nextVal = 2

Next ==
    \/ \E t \in Threads : CoreStep(t)
    \/ \E r \in Readers : lock_read(r, r) \/ unlock(r, r) \/ rd_call(r, r)
    \/ \E r \in Readers, o \in Owners : get_call(r, o, r)
    \/ \E o \in Owners : dtor_call(OwnerThread, o)
    \/ \E o \in Owners, v \in Vals : reset_call(OwnerThread, o, v)

Spec == Init /\ [][Next]_vars

\* SpecTeardown: Spec without reset and without the readers' destructor.
\* With the one owner, remove_ is only ever called by a get() that holds the
\* owner's mutex already, and never gets past its own mutex_.lock().
NextTeardown ==
    \/ \E t \in Threads : LockStep(t) \/ AttachStep(t) \/ DtorStep(t)
    \/ \E r \in Readers : lock_read(r, r) \/ unlock(r, r)
    \/ \E r \in Readers, o \in Owners : get_call(r, o, r)
    \/ \E o \in Owners : dtor_call(OwnerThread, o)

SpecTeardown == Init /\ [][NextTeardown]_vars

\* SpecReset: one reset of the owner, `owner->reset(new int(..))`, against
\* get(), lock() and unlock() of its readers.
InitReset ==
    /\ InitCommon
    /\ o_state = [o \in Owners |-> IF o = 1 THEN "live" ELSE "none"]
    /\ r_state = [r \in Readers |-> "live"]
    /\ locked_ = [r \in Readers |-> Null]
    /\ nextVal = NumVals

NextReset ==
    \/ \E t \in Threads : LockStep(t) \/ AttachStep(t) \/ ResetStep(t)
    \/ \E r \in Readers : lock_read(r, r) \/ unlock(r, r)
    \/ \E r \in Readers, o \in Owners : get_call(r, o, r)
    \/ \E o \in Owners, v \in Vals : reset_call(OwnerThread, o, v)

SpecReset == InitReset /\ [][NextReset]_vars

----------------------------------------------------------------------------
\* SpecSeq: the shared-read implementation used from one thread, as in
\* example.cpp: two owners, readers constructed by the three constructors
\* reader_ptr(), reader_ptr(owner) and reader_ptr(other).

InitSeq ==
    /\ InitCommon
    /\ o_state = [o \in Owners |-> "live"]
    /\ r_state = [r \in Readers |-> "none"]
    /\ locked_ = [r \in Readers |-> Null]
    /\ nextVal = 3

SeqCalls(t) ==
    \/ \E r \in Readers : lock_read(t, r) \/ unlock(t, r) \/ rd_call(t, r) \/ reader_ptr(t, r)
    \/ \E r \in Readers, o \in Owners : get_call(t, o, r) \/ reader_ptr_owner(t, r, o)
    \/ \E r \in Readers, other \in Readers : copy_call(t, r, other)
    \/ \E o \in Owners, v \in Vals : reset_call(t, o, v)

NextSeq ==
    \/ LockStep(1) \/ AttachStep(1) \/ RemoveStep(1) \/ ResetStep(1) \/ ReaderDtorStep(1) \/ CopyStep(1)
    \/ SeqCalls(1)

SpecSeq == InitSeq /\ [][NextSeq]_vars

\* SpecMove: SpecSeq with the move constructor reader_ptr(reader_ptr &&other)
\* and the owner's destructor.
NextMove ==
    \/ CoreStep(1) \/ CopyStep(1) \/ MoveStep(1) \/ SeqCalls(1)
    \/ \E r \in Readers, other \in Readers : move_call(1, r, other)
    \/ \E o \in Owners : dtor_call(1, o)

SpecMove == InitSeq /\ [][NextMove]_vars

----------------------------------------------------------------------------
\* The exclusive-lock implementation (src/unnamed/part_001): owned_ptr and
\* child_ptr.  locked_ is child_ptr's bool; a child is used by any thread.

\* Unlocking a std::mutex the calling thread does not own is undefined: the
\* mutex ends up free (no owner check), or the process is stopped.
ForeignUnlock(o) ==
    \/ o_mutex_' = [o_mutex_ EXCEPT ![o] = Null] /\ UNCHANGED fault
    \/ fault' = TRUE /\ UNCHANGED o_mutex_

\* child_ptr::lock(): frame r = this.
cl_call(t, c) ==
    /\ Idle(t) /\ r_state[c] = "live" /\ r_mutex_[c] # t
    /\ Start(t, Frame("cl_lock", Null, c, Null, 0))
    /\ UNCHANGED <<ownerVars, readerVars, held, kept, freed, doomed, nextVal, fault, clock>>

\* `mutex_.lock();`
cl_lock(t) ==
    /\ At(t, "cl_lock")
    /\ r_mutex_[Top(t).r] = Null
    /\ r_mutex_' = [r_mutex_ EXCEPT ![Top(t).r] = t]
    /\ Goto(t, [Top(t) EXCEPT !.pc = "lock_"])
    /\ UNCHANGED <<ownerVars, r_state, r_value_, locked_, parent_, held, kept, freed, doomed, nextVal, fault, clock>>

\* child_ptr::lock_(): `if (parent_ != nullptr) { locked_ = true; return
\* parent_->value_; } mutex_.unlock(); return nullptr;`
lock_(t) ==
    /\ At(t, "lock_")
    /\ IF parent_[Top(t).r] # Null
         THEN /\ locked_' = [locked_ EXCEPT ![Top(t).r] = TRUE]
              /\ held' = [held EXCEPT ![Top(t).r] = o_value_[parent_[Top(t).r]]]
              /\ UNCHANGED r_mutex_
         ELSE /\ r_mutex_' = [r_mutex_ EXCEPT ![Top(t).r] = Null]
              /\ UNCHANGED <<locked_, held>>
    /\ Return(t)
    /\ UNCHANGED <<ownerVars, r_state, r_value_, parent_, kept, freed, doomed, nextVal, fault, clock>>

\* child_ptr::try_lock(timeout): frame r = this, x = now, i = timeout.
\* `time(&now);`
tl_call(t, c, timeout) ==
    /\ Idle(t) /\ r_state[c] = "live" /\ r_mutex_[c] # t
    /\ Start(t, Frame("tl_try", Null, c, clock, timeout))
    /\ UNCHANGED <<ownerVars, readerVars, held, kept, freed, doomed, nextVal, fault, clock>>

\* `do { if (mutex_.try_lock()) return lock_();`
tl_try(t) ==
    /\ At(t, "tl_try")
    /\ IF r_mutex_[Top(t).r] = Null
         THEN /\ r_mutex_' = [r_mutex_ EXCEPT ![Top(t).r] = t]
              /\ Goto(t, [Top(t) EXCEPT !.pc = "lock_"])
         ELSE /\ Goto(t, [Top(t) EXCEPT !.pc = "tl_cond"])
              /\ UNCHANGED r_mutex_
    /\ UNCHANGED <<ownerVars, r_state, r_value_, locked_, parent_, held, kept, freed, doomed, nextVal, fault, clock>>

\* `} while (now + timeout < time(nullptr));`
tl_cond(t) ==
    /\ At(t, "tl_cond")
    /\ IF Top(t).x + Top(t).i < clock
         THEN Goto(t, [Top(t) EXCEPT !.pc = "tl_try"])
         ELSE Goto(t, [Top(t) EXCEPT !.pc = "tl_fail"])
    /\ UNCHANGED <<ownerVars, readerVars, held, kept, freed, doomed, nextVal, fault, clock>>

\* `return nullptr;`
tl_fail(t) ==
    /\ At(t, "tl_fail")
    /\ Return(t)
    /\ UNCHANGED <<ownerVars, readerVars, held, kept, freed, doomed, nextVal, fault, clock>>

\* time() moves on.
Tick ==
    /\ ~fault /\ clock < MaxClock
    /\ clock' = clock + 1
    /\ UNCHANGED <<ownerVars, readerVars, stack, held, kept, freed, doomed, nextVal, fault>>

\* child_ptr::unlock(), called by the thread that locked the child:
\* `if (locked_) {`
cu_call(t, c) ==
    /\ Idle(t) /\ r_state[c] = "live" /\ r_mutex_[c] = t
    /\ held' = [held EXCEPT ![c] = Null]
    /\ UNCHANGED kept
    /\ IF locked_[c]
         THEN Start(t, Frame("cu_mutex", Null, c, Null, 0))
         ELSE UNCHANGED stack
    /\ UNCHANGED <<ownerVars, readerVars, freed, doomed, nextVal, fault, clock>>

\* `mutex_.unlock();`
cu_mutex(t) ==
    /\ At(t, "cu_mutex")
    /\ r_mutex_' = [r_mutex_ EXCEPT ![Top(t).r] = Null]
    /\ Goto(t, [Top(t) EXCEPT !.pc = "cu_parent"])
    /\ UNCHANGED <<ownerVars, r_state, r_value_, locked_, parent_, held, kept, freed, doomed, nextVal, fault, clock>>

\* `parent_->mutex_.unlock();` of a mutex this thread never locked; parent_ is
\* read without the child's mutex.
cu_parent(t) ==
    /\ At(t, "cu_parent")
    /\ IF parent_[Top(t).r] = Null \/ o_state[parent_[Top(t).r]] = "dead"
         THEN fault' = TRUE /\ UNCHANGED <<o_mutex_, stack>>
         ELSE /\ ForeignUnlock(parent_[Top(t).r])
              /\ Goto(t, [Top(t) EXCEPT !.pc = "cu_flag"])
    /\ UNCHANGED <<o_state, o_value_, children_, update_, readerVars, held, kept, freed, doomed, nextVal, clock>>

\* `locked_ = false; }`
cu_flag(t) ==
    /\ At(t, "cu_flag")
    /\ locked_' = [locked_ EXCEPT ![Top(t).r] = FALSE]
    /\ Return(t)
    /\ UNCHANGED <<ownerVars, r_state, r_value_, parent_, r_mutex_, held, kept, freed, doomed, nextVal, fault, clock>>

\* owned_ptr::get(child): frame o = this, r = child.
xg_call(t, o, c) ==
    /\ Idle(t) /\ o_state[o] = "live" /\ r_state[c] = "live" /\ r_mutex_[c] # t
    /\ Start(t, Frame("xg_lock", o, c, Null, 0))
    /\ UNCHANGED <<ownerVars, readerVars, held, kept, freed, doomed, nextVal, fault, clock>>

\* `child.mutex_.lock();`
xg_lock(t) ==
    /\ At(t, "xg_lock")
    /\ r_mutex_[Top(t).r] = Null
    /\ r_mutex_' = [r_mutex_ EXCEPT ![Top(t).r] = t]
    /\ Goto(t, [Top(t) EXCEPT !.pc = "xg_body"])
    /\ UNCHANGED <<ownerVars, r_state, r_value_, locked_, parent_, held, kept, freed, doomed, nextVal, fault, clock>>

\* `if (child.parent_ != nullptr) child.parent_->remove_(&child);`
xg_body(t) ==
    /\ At(t, "xg_body")
    /\ IF parent_[Top(t).r] # Null
         THEN Call(t, [Top(t) EXCEPT !.pc = "xg_assign"],
                   Frame("xr_lock", parent_[Top(t).r], Top(t).r, Null, 0))
         ELSE Goto(t, [Top(t) EXCEPT !.pc = "xg_assign"])
    /\ UNCHANGED <<ownerVars, readerVars, held, kept, freed, doomed, nextVal, fault, clock>>

\* `child.parent_ = this; child.mutex_.unlock();`
xg_assign(t) ==
    /\ At(t, "xg_assign")
    /\ parent_' = [parent_ EXCEPT ![Top(t).r] = Top(t).o]
    /\ r_mutex_' = [r_mutex_ EXCEPT ![Top(t).r] = Null]
    /\ Goto(t, [Top(t) EXCEPT !.pc = "xg_push"])
    /\ UNCHANGED <<ownerVars, r_state, r_value_, locked_, held, kept, freed, doomed, nextVal, fault, clock>>

\* `std::lock_guard<std::mutex> guard(mutex_); children_.push_back(&child);`
xg_push(t) ==
    /\ At(t, "xg_push")
    /\ o_mutex_[Top(t).o] = Null
    /\ children_' = [children_ EXCEPT ![Top(t).o] = Append(@, Top(t).r)]
    /\ Return(t)
    /\ UNCHANGED <<o_state, o_value_, update_, o_mutex_, readerVars, held, kept, freed, doomed, nextVal, fault, clock>>

\* owned_ptr::remove_(child): frame o = this, r = child.
xr_lock(t) ==
    /\ At(t, "xr_lock")
    /\ o_mutex_[Top(t).o] = Null
    /\ IF o_state[Top(t).o] = "dead"
         THEN fault' = TRUE /\ UNCHANGED <<o_mutex_, stack>>
         ELSE /\ o_mutex_' = [o_mutex_ EXCEPT ![Top(t).o] = t]
              /\ Goto(t, [Top(t) EXCEPT !.pc = "xr_loop"])
              /\ UNCHANGED fault
    /\ UNCHANGED <<o_state, o_value_, children_, update_, readerVars, held, kept, freed, doomed, nextVal, clock>>

\* `while (i != children_.end()) { if (*i == child) { children_.erase(i); return; } }`
\* i is never advanced.  The guard's release is a foreign unlock when an
\* unlock() has freed the mutex meanwhile.
xr_loop(t) ==
    /\ At(t, "xr_loop")
    /\ IF children_[Top(t).o] # <<>> /\ Head(children_[Top(t).o]) # Top(t).r
         THEN UNCHANGED <<children_, o_mutex_, stack, fault>>
         ELSE /\ children_' = [children_ EXCEPT ![Top(t).o] =
                                 IF @ = <<>> THEN @ ELSE Tail(@)]
              /\ IF o_mutex_[Top(t).o] = t
                   THEN o_mutex_' = [o_mutex_ EXCEPT ![Top(t).o] = Null] /\ UNCHANGED fault
                   ELSE ForeignUnlock(Top(t).o)
              /\ Return(t)
    /\ UNCHANGED <<o_state, o_value_, update_, readerVars, held, kept, freed, doomed, nextVal, clock>>

\* owned_ptr::set(value): frame o = this, x = value.
xs_call(t, o, v) ==
    /\ Idle(t) /\ o_state[o] = "live"
    /\ v = Null \/ (v = nextVal /\ nextVal <= NumVals)
    /\ nextVal' = IF v = Null THEN nextVal ELSE nextVal + 1
    /\ Start(t, Frame("xs_set", o, Null, v, 0))
    /\ UNCHANGED <<ownerVars, readerVars, held, kept, freed, doomed, fault, clock>>

\* `std::lock_guard<std::mutex> guard(mutex_); delete value_; value_ = value;`
xs_set(t) ==
    /\ At(t, "xs_set")
    /\ o_mutex_[Top(t).o] = Null
    /\ freed' = freed \cup ({o_value_[Top(t).o]} \ {Null})
    /\ o_value_' = [o_value_ EXCEPT ![Top(t).o] = Top(t).x]
    /\ Return(t)
    /\ UNCHANGED <<o_state, children_, update_, o_mutex_, readerVars, held, kept, doomed, nextVal, fault, clock>>

\* owned_ptr::~owned_ptr(): frame o = this, i = position in children_.
xd_call(t, o) ==
    /\ Idle(t) /\ o_state[o] = "live" /\ ~OwnerBusy(o)
    /\ o_state' = [o_state EXCEPT ![o] = "dying"]
    /\ doomed' = [doomed EXCEPT ![o] = {c \in Readers : r_state[c] = "live" /\ parent_[c] = o}]
    /\ Start(t, [Frame("xd_lock", o, Null, Null, 1) EXCEPT
                    !.g = {c \in Readers : parent_[c] = o /\ held[c] # Null}])
    /\ UNCHANGED <<o_value_, children_, update_, o_mutex_, readerVars, held, kept, freed, nextVal, fault, clock>>

\* `std::lock_guard<std::mutex> guard(mutex_);`
xd_lock(t) ==
    /\ At(t, "xd_lock")
    /\ o_mutex_[Top(t).o] = Null
    /\ o_mutex_' = [o_mutex_ EXCEPT ![Top(t).o] = t]
    /\ Goto(t, [Top(t) EXCEPT !.pc = "xd_child"])
    /\ UNCHANGED <<o_state, o_value_, children_, update_, readerVars, held, kept, freed, doomed, nextVal, fault, clock>>

\* As xd_child, but without waiting for the child's mutex.
xd_child_skips_mutex(t) ==
    /\ At(t, "xd_child")
    /\ IF Top(t).i > Len(children_[Top(t).o])
         THEN /\ Goto(t, [Top(t) EXCEPT !.pc = "xd_delete"])
              /\ UNCHANGED <<parent_, fault>>
         ELSE LET child == children_[Top(t).o][Top(t).i] IN
              IF r_state[child] = "dead"
                THEN fault' = TRUE /\ UNCHANGED <<parent_, stack>>
                ELSE /\ parent_' = [parent_ EXCEPT ![child] = Null]
                     /\ Goto(t, [Top(t) EXCEPT !.i = Top(t).i + 1])
                     /\ UNCHANGED fault
    /\ UNCHANGED <<ownerVars, r_state, r_value_, locked_, r_mutex_, held, kept, freed, doomed, nextVal, clock>>

\* `for (auto &i : children_) { i->mutex_.lock(); i->parent_ = nullptr;
\* i->mutex_.unlock(); }`: one child per step, once its mutex is free.
xd_child(t) ==
    /\ At(t, "xd_child")
    /\ IF Top(t).i > Len(children_[Top(t).o])
         THEN /\ Goto(t, [Top(t) EXCEPT !.pc = "xd_delete"])
              /\ UNCHANGED <<parent_, fault>>
         ELSE LET child == children_[Top(t).o][Top(t).i] IN
              IF r_state[child] = "dead"
                THEN fault' = TRUE /\ UNCHANGED <<parent_, stack>>
                ELSE /\ r_mutex_[child] = Null
                     /\ parent_' = [parent_ EXCEPT ![child] = Null]
                     /\ Goto(t, [Top(t) EXCEPT !.i = Top(t).i + 1])
                     /\ UNCHANGED fault
    /\ UNCHANGED <<ownerVars, r_state, r_value_, locked_, r_mutex_, held, kept, freed, doomed, nextVal, clock>>

\* `delete value_;`, then the guard releases mutex_ and the object is gone.
xd_delete(t) ==
    /\ At(t, "xd_delete")
    /\ freed' = freed \cup ({o_value_[Top(t).o]} \ {Null})
    /\ IF o_mutex_[Top(t).o] = t
         THEN o_mutex_' = [o_mutex_ EXCEPT ![Top(t).o] = Null] /\ UNCHANGED fault
         ELSE ForeignUnlock(Top(t).o)
    /\ o_state' = [o_state EXCEPT ![Top(t).o] = "dead"]
    /\ Return(t)
    /\ UNCHANGED <<o_value_, children_, update_, readerVars, held, kept, doomed, nextVal, clock>>

\* child_ptr::~child_ptr(): frame r = this.  No other call on the child is in
\* progress when it is destroyed.
ChildBusy(c) ==
    \E t \in Threads : \E k \in 1 .. Len(stack[t]) : stack[t][k].r = c

cd_call(t, c) ==
    /\ Idle(t) /\ r_state[c] = "live" /\ ~ChildBusy(c) /\ r_mutex_[c] # t
    /\ Start(t, Frame("cd_lock", Null, c, Null, 0))
    /\ UNCHANGED <<ownerVars, readerVars, held, kept, freed, doomed, nextVal, fault, clock>>

\* `std::lock_guard<std::mutex> guard(mutex_);`
cd_lock(t) ==
    /\ At(t, "cd_lock")
    /\ r_mutex_[Top(t).r] = Null
    /\ r_mutex_' = [r_mutex_ EXCEPT ![Top(t).r] = t]
    /\ Goto(t, [Top(t) EXCEPT !.pc = "cd_body"])
    /\ UNCHANGED <<ownerVars, r_state, r_value_, locked_, parent_, held, kept, freed, doomed, nextVal, fault, clock>>

\* `if (parent_ != nullptr) parent_->remove_(this);`
cd_body(t) ==
    /\ At(t, "cd_body")
    /\ IF parent_[Top(t).r] # Null
         THEN Call(t, [Top(t) EXCEPT !.pc = "cd_unlock"],
                   Frame("xr_lock", parent_[Top(t).r], Top(t).r, Null, 0))
         ELSE Goto(t, [Top(t) EXCEPT !.pc = "cd_unlock"])
    /\ UNCHANGED <<ownerVars, readerVars, held, kept, freed, doomed, nextVal, fault, clock>>

\* The guard releases mutex_ and the object is gone.
cd_unlock(t) ==
    /\ At(t, "cd_unlock")
    /\ r_mutex_' = [r_mutex_ EXCEPT ![Top(t).r] = Null]
    /\ r_state' = [r_state EXCEPT ![Top(t).r] = "dead"]
    /\ Return(t)
    /\ UNCHANGED <<ownerVars, r_value_, locked_, parent_, held, kept, freed, doomed, nextVal, fault, clock>>

ChildLockStep(t) == cl_lock(t) \/ lock_(t)

TryLockStep(t) == tl_try(t) \/ tl_cond(t) \/ tl_fail(t)

ChildUnlockStep(t) == cu_mutex(t) \/ cu_parent(t) \/ cu_flag(t)

ChildAttachStep(t) == xg_lock(t) \/ xg_body(t) \/ xg_assign(t) \/ xg_push(t)

ChildRemoveStep(t) == xr_lock(t) \/ xr_loop(t)

ChildDtorStep(t) == cd_lock(t) \/ cd_body(t) \/ cd_unlock(t)

OwnerDtorStep(t) == xd_lock(t) \/ xd_child(t) \/ xd_delete(t)

----------------------------------------------------------------------------
\* SpecX: the exclusive-lock implementation under concurrency.  One owner,
\* `new owned_ptr<int>(new int(..))`, and NumReaders children `child_ptr<int> c;`
\* whose locked_ the constructor leaves uninitialized.  Thread c locks child c;
\* threads 1 .. NumReaders try_lock any child and unlock the children they
\* hold; OwnerThread attaches children and destroys the owner.

Timeouts == 0 .. MaxClock

InitX ==
    /\ InitCommon
    /\ o_state = [o \in Owners |-> IF o = 1 THEN "live" ELSE "none"]
    /\ r_state = [r \in Readers |-> "live"]
    /\ locked_ \in [Readers -> BOOLEAN]
    /\ nextVal = 2

NextX ==
    \/ \E t \in Threads : ChildLockStep(t)
    \/ \E t \in Threads : TryLockStep(t)
    \/ \E t \in Threads : ChildUnlockStep(t)
    \/ \E t \in Threads : ChildAttachStep(t)
    \/ \E t \in Threads : ChildRemoveStep(t)
    \/ \E t \in Threads : OwnerDtorStep(t)
    \/ Tick
    \/ \E c \in Readers : cl_call(c, c)
    \/ \E t \in Readers, c \in Readers, timeout \in Timeouts : tl_call(t, c, timeout)
    \/ \E t \in Readers, c \in Readers : cu_call(t, c)
    \/ \E o \in Owners, c \in Readers : xg_call(OwnerThread, o, c)
    \/ \E o \in Owners : xd_call(OwnerThread, o)

SpecX == InitX /\ [][NextX]_vars

\* SpecXTeardown: the owner's destructor against lock() and unlock() of its
\* children.  Child c is attached by OwnerThread and locked and unlocked by
\* thread c.
NextXTeardown ==
    \/ \E t \in Threads : ChildLockStep(t)
    \/ \E t \in Threads : ChildUnlockStep(t)
    \/ \E t \in Threads : ChildAttachStep(t)
    \/ \E t \in Threads : ChildRemoveStep(t)
    \/ \E t \in Threads : OwnerDtorStep(t)
    \/ \E c \in Readers : cl_call(c, c)
    \/ \E c \in Readers : cu_call(c, c)
    \/ \E o \in Owners, c \in Readers : xg_call(OwnerThread, o, c)
    \/ \E o \in Owners : xd_call(OwnerThread, o)

SpecXTeardown == InitX /\ [][NextXTeardown]_vars

\* SpecXOwner: as SpecXTeardown, and OwnerThread also sets the value and
\* destroys children.
NextXOwner ==
    \/ NextXTeardown
    \/ \E t \in Threads : xs_set(t)
    \/ \E t \in Threads : ChildDtorStep(t)
    \/ \E o \in Owners, v \in Vals \cup {Null} : xs_call(OwnerThread, o, v)
    \/ \E c \in Readers : cd_call(OwnerThread, c)

SpecXOwner == InitX /\ [][NextXOwner]_vars

----------------------------------------------------------------------------
\* Properties of the shared-read implementation.

\* Thread t leaves program point pc in this step.
Leaves(t, pc) ==
    /\ At(t, pc)
    /\ ~(stack'[t] # <<>> /\ Head(stack'[t]).pc = pc /\ Len(stack'[t]) = Len(stack[t]))

\* The readers in the registry of owner o.
Registry(o) == {children_[o][k] : k \in DOMAIN children_[o]}

\* C1: ~owned_ptr never executes `delete value_` while a reader holds that
\* value: a non-null pointer lock() returned and unlock() has not released.
C1_DtorNeverFreesHeldValue ==
    [][\A t \in Threads :
         Leaves(t, "dtor_delete") =>
             \A r \in Readers : held[r] = Null \/ held[r] # o_value_[Top(t).o]]_vars

\* C2: reset never executes `delete value_` while a reader attached to the owner
\* holds the old value locked.
C2_ResetNeverFreesHeldValue ==
    [][\A t \in Threads :
         Leaves(t, "rs_delete") =>
             \A r \in Registry(Top(t).o) :
                 held[r] = Null \/ held[r] # o_value_[Top(t).o]]_vars

\* C3: a lock() called after the destructor of an owner has completed, on a
\* reader that was attached to that owner when the destructor was called,
\* returns nullptr.
C3_LockAfterDtorIsNull ==
    \A t \in Threads :
        (At(t, "lock_write") /\ Top(t).g # {}) => Top(t).x = Null

\* A lock() after the destruction is about to return nullptr, while another
\* reader's lock() that raced with the destructor has returned the value.
C3_Witness ==
    \E t \in Threads :
        /\ At(t, "lock_write") /\ Top(t).g # {} /\ Top(t).x = Null
        /\ \E o \in Top(t).g : Cardinality(doomed[o]) > 1

\* C4: once called, the destructor of an owner finishes, provided every thread
\* keeps running and every reader that holds the value is unlocked.
C4_DtorTerminates ==
    \A o \in Owners : (o_state[o] = "dying") ~> (o_state[o] = "dead")

\* Fair scheduling: every thread that can take a step of the function it is in
\* eventually does, and a reader that holds the value eventually calls unlock().
FairSpec ==
    /\ Spec
    /\ \A t \in Threads : WF_vars(CoreStep(t))
    /\ \A r \in Readers : WF_vars(held[r] # Null /\ unlock(r, r))

\* The live readers whose parent_ is owner o.
AttachedTo(o) == {r \in Readers : r_state[r] = "live" /\ parent_[r] = o}

Quiescent == \A t \in Threads : stack[t] = <<>>

\* C5: when no operation is in progress, count() of every owner is the number
\* of live readers whose parent_ is that owner.
C5_CountIsAttached ==
    Quiescent =>
        \A o \in Owners : o_state[o] = "live" => count(o) = Cardinality(AttachedTo(o))

\* A reader has been destroyed while attached to an owner (its destructor has
\* erased its entry), and that owner still has a reader.
C5_Witness ==
    /\ Quiescent
    /\ \E o \in Owners :
        /\ o_state[o] = "live" /\ count(o) >= 1
        /\ \E r \in Readers : r_state[r] = "dead" /\ parent_[r] = o

\* C6: when the move constructor has done its replace_ (it is about to unlock
\* other), the registry of other's owner is what it was with other's entry
\* replaced by the new reader; the new reader's parent_ is that owner and its
\* value_ the owner's value; other has no owner and no value.
C6_MoveTransfersAttachment ==
    \A t \in Threads :
        (At(t, "mv_unlock") /\ Top(t).g.o # Null) =>
            LET o == Top(t).g.o
                n == Top(t).r
                other == Top(t).x
            IN  /\ children_[o] = [k \in DOMAIN Top(t).g.children |->
                                     IF Top(t).g.children[k] = other THEN n
                                     ELSE Top(t).g.children[k]]
                /\ parent_[n] = o
                /\ r_value_[n] = o_value_[o]
                /\ parent_[other] = Null
                /\ r_value_[other] = Null

\* C7, the copy: when the copy constructor has done its get (it is about to
\* unlock other), the owner's registry is what it was plus the new reader, so
\* count() is one more; other is attached and unchanged; both readers' value_,
\* which lock() returns, is the owner's value.
C7_CopyAttachesBoth ==
    \A t \in Threads :
        (At(t, "cp_unlock") /\ Top(t).g.o # Null) =>
            LET o == Top(t).g.o
                c == Top(t).r
                other == Top(t).x
            IN  /\ children_[o] = Append(Top(t).g.children, c)
                /\ count(o) = Len(Top(t).g.children) + 1
                /\ parent_[c] = o /\ parent_[other] = o
                /\ r_value_[other] = Top(t).g.value
                /\ locked_[other] = Top(t).g.locked
                /\ r_value_[c] = o_value_[o] /\ r_value_[other] = o_value_[o]

\* C7, the independence: a step that clears a reader's locked_ (an unlock())
\* leaves every other reader's locked_, value_ and parent_ as they were.
C7_UnlockTouchesOneReader ==
    \A r \in Readers :
        (locked_[r] # Null /\ locked_'[r] = Null) =>
            \A q \in Readers \ {r} :
                /\ locked_'[q] = locked_[q]
                /\ r_value_'[q] = r_value_[q]
                /\ parent_'[q] = parent_[q]

C11_ResetWaitsForEarlierLock ==
    \A t \in Threads :
        Leaves(t, "rs_delete") => \A r \in Readers : kept[r] # Top(t).o

\* C11, the new value: whenever no operation holds a live owner's mutex, the
\* value_ of every reader in its registry, which is what the reader's next
\* lock() returns, is the owner's value_: after reset(v) has returned it is v,
\* also for a reader that get() attaches later.
C11_ReadersSeeOwnersValue ==
    \A o \in Owners :
        (o_state[o] = "live" /\ o_mutex_[o] = Null) =>
            \A r \in Registry(o) : r_value_[r] = o_value_[o]

FairSpecSeq ==
    SpecSeq /\ WF_vars(LockStep(1) \/ AttachStep(1) \/ RemoveStep(1) \/ ResetStep(1)
                         \/ ReaderDtorStep(1) \/ CopyStep(1))

\* C12: the destructor of a reader that is attached to a live owner and not
\* locked finishes, wherever the reader's entry is in the registry.
C12_UnlockedReaderDtorTerminates ==
    \A r \in Readers :
        (\E t \in Threads :
            /\ At(t, "rd_lock") /\ Top(t).r = r
            /\ locked_[r] = Null /\ parent_[r] # Null /\ o_state[parent_[r]] = "live")
          ~> (r_state[r] = "dead")

\* C14: an unlock() of a reader that is not locked changes nothing in any owner
\* or reader: every other reader's locked_ is as it was, so whatever the
\* owner's reset and destructor wait for, they still wait for.
C14_UnlockOfUnlockedIsNoOp ==
    [][\A r \in Readers : \A t \in Threads :
          (unlock(t, r) /\ locked_[r] = Null) =>
              UNCHANGED <<ownerVars, readerVars, stack, freed, fault>>]_vars

\* The destructor is waiting for a locked reader while another reader of the
\* owner, which is not locked, can be unlocked.
C14_Witness ==
    \E t \in Threads : \E b \in Readers :
        /\ At(t, "dtor_poll") /\ locked_[Top(t).r] # Null /\ held[Top(t).r] # Null
        /\ b # Top(t).r /\ b \in doomed[Top(t).o]
        /\ locked_[b] = Null /\ ENABLED unlock(b, b)

\* C15: when no operation is in progress, a live reader is an entry of a live
\* owner's registry exactly if its parent_ is that owner, and no registry
\* holds a reader twice.
C15_RegistryMatchesParent ==
    Quiescent =>
        \A o \in Owners : o_state[o] = "live" =>
            /\ \A r \in Readers :
                  r_state[r] = "live" => (r \in Registry(o) <=> parent_[r] = o)
            /\ \A j, k \in DOMAIN children_[o] :
                  children_[o][j] = children_[o][k] => j = k

\* C16: get() on a reader that is attached already and not locked returns.
C16_ReattachTerminates ==
    \A r \in Readers :
        (\E t \in Threads :
            /\ At(t, "get_lock") /\ Top(t).r = r
            /\ parent_[r] # Null /\ locked_[r] = Null)
          ~> (\A t \in Threads : \A k \in DOMAIN stack[t] : stack[t][k].r # r)

\* C17: remove_ erases a reader's registry entry only when the reader's
\* locked_ is not set.
C17_RemoveErasesOnlyUnlocked ==
    [][\A t \in Threads :
          (At(t, "rm_spin") /\ children_' # children_) => locked_[Top(t).r] = Null]_vars

\* C18: no thread holds the mutexes of two owners at the same time.
C18_NeverHoldsBothOwners ==
    \A t \in Threads : \A a, b \in Owners :
        (o_mutex_[a] = t /\ o_mutex_[b] = t) => a = b

\* C19: every entry of the registry of an owner that exists refers to a reader
\* that has not been destroyed.
C19_RegistryHoldsLiveReaders ==
    \A o \in Owners :
        o_state[o] \in {"live", "dying"} =>
            \A r \in Registry(o) : r_state[r] # "dead"

----------------------------------------------------------------------------
\* Properties of the exclusive-lock implementation.

\* C8: while one child of an owner is locked (lock() or try_lock() returned
\* non-null and unlock() was not yet called), no other child of the same owner
\* is locked: at most one child per owner is inside the value.
C8_AtMostOneLockedChild ==
    \A c1 \in Readers, c2 \in Readers :
        (c1 # c2 /\ parent_[c1] # Null /\ parent_[c1] = parent_[c2])
            => ~(held[c1] # Null /\ held[c2] # Null)

\* C9: when the owner's destructor deletes the value, no child that was
\* attached when the destructor was called is locked, and the owner reference
\* of each of them has been cleared.
C9_DtorWaitsForLockedChildren ==
    [][\A t \in Threads :
          Leaves(t, "xd_delete") =>
              \A c \in doomed[Top(t).o] : held[c] = Null /\ parent_[c] = Null]_vars

\* The destructor, called while a child was locked, has reached its delete.
C9_Witness ==
    \E t \in Threads : At(t, "xd_delete") /\ Top(t).g # {}

\* C10: try_lock(timeout) gives up (returns nullptr without having acquired the
\* child's mutex) only if the child has no owner or the timeout has elapsed:
\* the clock has reached now + timeout.
C10_TryLockFailsOnlyAfterTimeout ==
    \A t \in Threads :
        At(t, "tl_fail") =>
            \/ parent_[Top(t).r] = Null
            \/ clock >= Top(t).x + Top(t).i

\* C13: a child whose mutex is held by a thread that is in no operation is a
\* child whose lock() returned a value: a lock() that returned nullptr has
\* released the child's mutex again.
C13_NullLockReleasesMutex ==
    \A c \in Readers : \A t \in Threads :
        (r_state[c] = "live" /\ r_mutex_[c] = t /\ stack[t] = <<>>) => held[c] # Null

\* C20: a thread releases only a mutex it holds: when unlock() comes to
\* `parent_->mutex_.unlock()`, the child has an owner and the thread holds that
\* owner's mutex.
C20_UnlockReleasesOnlyHeldMutexes ==
    \A t \in Threads :
        At(t, "cu_parent") =>
            /\ parent_[Top(t).r] # Null
            /\ o_mutex_[parent_[Top(t).r]] = t

\* C21: set never executes `delete value_` while a child of the owner is
\* locked on that value: lock() or try_lock() returned it and unlock() has not
\* been called.
C21_SetNeverFreesHeldValue ==
    [][\A t \in Threads :
          Leaves(t, "xs_set") =>
              \A c \in Readers :
                  parent_[c] = Top(t).o =>
                      (held[c] = Null \/ held[c] # o_value_[Top(t).o])]_vars

====
